---- MODULE Spec2Model ----
(***************************************************************************)
(* Netraone deepfake-detection backend: the detector modules               *)
(* (face_detection.py, voice_detection.py, video_detection.py) and the     *)
(* upload endpoint of main.py.                                             *)
(*                                                                         *)
(* Numbers.  Scores are fixed-point: 1.0 is 1000000.        The signals    *)
(* the mock extractors draw lie on a 0.0001 grid (multiples of 100), the   *)
(* weights are hundredths, so every weighted sum is exact.  A confidence   *)
(* (a percentage with two decimals) is counted in hundredths of a percent, *)
(* 0..10000, so confidence = overall_score * 100 rounded is score / 100    *)
(* rounded to an integer.  Sums and comparisons are exact decimal          *)
(* arithmetic; the binary floating point of the source is not modelled,    *)
(* except that a rounding tie can go either way.                           *)
(***************************************************************************)
EXTENDS Integers, Sequences, FiniteSets, TLC

VARIABLES
    pc,             \* "idle": no detector call in progress; "returned": a call has returned or raised
    call,           \* which detector's detect() ran last: "none", "image", "audio", "video"
    signals,        \* the raw values the extractors produced during the call
    failed,         \* the fault points that fired during the call
    overall_score,  \* the local overall_score / final_score of the call (-1: not computed)
    outcome,        \* what detect() did: returned a result record, or raised
    tempFiles,      \* temporary files on disk: created by a detector call and not unlinked
    reqPc,          \* main.py, per request: where detect_deepfake is ("idle", "reading", "sleeping", "done")
    reqContentType, \* per request: file.content_type as the client declared it ("" before the request)
    reqType,        \* per request: file_type ("none" before classification)
    reqSize,        \* per request: len(content), the bytes read from the upload (-1 before the read)
    reqError,       \* per request: the exception the detector raised (NoError if it did not)
    reqFile,        \* per request: the temp file it created (0: none)
    reqResult,      \* per request: the detector's result, held across the sleep
    reqInvoked,     \* per request: the detectors invoked for it, in order
    reqOutcome,     \* per request: the response, the HTTP error or the exception
    uploadFiles,    \* the upload temp files on disk
    filesCreated,   \* how many upload temp files have been created so far
    exPc,           \* extract_frames: "idle", "loop" (in the read loop), "returned", "raised"
    exFrameCount,   \* the frames of the video (CAP_PROP_FRAME_COUNT)
    exMaxFrames,    \* the max_frames argument
    exStep,         \* the local step (0 before it is computed)
    exFrameIdx,     \* the local frame_idx
    exFrames,       \* the local frames: the indices of the frames appended
    exCapOpen,      \* whether the cv2.VideoCapture is open
    spPc,           \* verify_speaker_consistency: "idle" or "returned"
    spLen,          \* len(audio), in samples (-1: the audio could not be loaded)
    spSegments,     \* the local segments, as the list of their lengths
    spEmbedded,     \* the indices of the segments that got an embedding
    spResult,       \* the dict the call returned
    now,            \* auth_service.py: the clock (datetime.utcnow()), in minutes
    issued,         \* the JWTs create_jwt_token has returned
    authCall,       \* the last call on the auth service: its name, the token presented, the time
    authResult,     \* what that call returned
    dbPc,           \* connection.py: "idle", or "returned" from check_database_health
    dbCreated,      \* how many sessions SessionLocal() has created
    dbOpen,         \* the sessions that are open (created and not closed)
    dbHeld,         \* the sessions request handlers hold through get_db
    dbResult,       \* what check_database_health returned
    scPc,           \* file_handler.py: "idle", or "returned" from scan_file_content
    scContent,      \* the file_content scanned, as the byte strings it contains
    scFileType,     \* the file_type argument
    scResult        \* the results dict returned

detVars == <<pc, call, signals, failed, overall_score, outcome, tempFiles>>
apiVars == <<reqPc, reqContentType, reqType, reqSize, reqError, reqFile, reqResult,
             reqInvoked, reqOutcome, uploadFiles, filesCreated>>
exVars == <<exPc, exFrameCount, exMaxFrames, exStep, exFrameIdx, exFrames, exCapOpen>>
spVars == <<spPc, spLen, spSegments, spEmbedded, spResult>>
authVars == <<now, issued, authCall, authResult>>
dbVars == <<dbPc, dbCreated, dbOpen, dbHeld, dbResult>>
scVars == <<scPc, scContent, scFileType, scResult>>
auxVars == <<authVars, dbVars, scVars>>
vars == <<detVars, apiVars, exVars, spVars, auxVars>>

----------------------------------------------------------------------------
(* Bounds of the model *)

MaxFrameCount == 3      \* videos have 0..MaxFrameCount readable frames
MaxFaults == 2          \* at most this many fault points fire in one call
NumRequests == 2        \* requests that can be in flight at once
MaxUploads == 3         \* upload temp files created in one run
MaxVideoFrames == 12    \* extract_frames is run on videos of 0..MaxVideoFrames frames
MaxSampleFrames == 5    \* and with max_frames in 1..MaxSampleFrames
MaxAudioHalfSeconds == 24   \* verify_speaker_consistency is run on audio of up to this many half seconds

----------------------------------------------------------------------------
(* Results of a call *)

Returned(v) == [status |-> "returned", value |-> v]
Raised(kind) == [status |-> "raised", error |-> kind]
NoOutcome == [status |-> "none"]

(* Python's None, and no call made yet *)
None == [py |-> "None"]
NoCall == [op |-> "none"]

(* round(confidence, 2) of confidence = score * 100: the nearest hundredth *)
(* of a percent.  The binary float decides an exact decimal tie either way, *)
(* so a tie may round down or up.                                           *)
round2(score) ==
    LET q == score \div 100
        r == score % 100
    IN  IF r < 50 THEN {q} ELSE IF r > 50 THEN {q + 1} ELSE {q, q + 1}

(* a weight in hundredths applied to a score *)
Weighted(w, s) == (w * s) \div 100

FaultSets(points) == {F \in SUBSET points : Cardinality(F) <= MaxFaults}

----------------------------------------------------------------------------
(* face_detection.py *)

(* a slip in the image weights: authenticity and lighting swapped *)
ImageWeights_swapped == [authenticity |-> 20, consistency |-> 60, artifact |-> 20]

ImageWeights == [authenticity |-> 60, consistency |-> 20, artifact |-> 20]
ImageThreshold == 750000

(* values of the three image signals.  The mock extractors draw them with  *)
(* np.random.uniform (0.6..0.95, 0.7..0.9, 0.6..0.85); the fusion is        *)
(* exercised over signals from all of [0, 1].                              *)
ImageSignalValues == {0, 500000, 720000, 720100, 750000, 750100, 800000, 900000, 1000000}

ImageFaultPoints == {"imread"}

(* analyze_authenticity: preprocess_image raises when the image cannot be  *)
(* loaded; otherwise the three signals are combined into final_score,      *)
(* which is reported as 'authenticity_score'.                              *)
analyze_authenticity(a, l, c, faults) ==
    IF "imread" \in faults
    THEN Raised("ValueError")
    ELSE Returned([authenticity_score |->
                       Weighted(ImageWeights.authenticity, a)
                     + Weighted(ImageWeights.consistency, l)
                     + Weighted(ImageWeights.artifact, c),
                   consistency_score |-> l,
                   artifact_score |-> c])

(* a slip in the image verdict: the 0.72 of the audio detector as threshold *)
ImageIsAuthentic_audio_threshold(score) == score > 720000

ImageIsAuthentic(score) == score > ImageThreshold

(* FaceNetDetector.detect: the set of things the call can do; a result is  *)
(* paired with the score it was computed from                              *)
FaceNetDetector_detect_results(a, l, c, faults) ==
    LET analysis == analyze_authenticity(a, l, c, faults)
    IN  IF analysis.status = "raised"
        THEN {[out |-> analysis, score |-> -1]}
        ELSE LET score == analysis.value.authenticity_score
             IN  {[out |-> Returned([result |-> IF ImageIsAuthentic(score)
                                                THEN "authentic" ELSE "deepfake",
                                     confidence |-> conf,
                                     model |-> "FaceNet + DeepFace",
                                     details |-> analysis.value]),
                   score |-> score] : conf \in round2(score)}

FaceNetDetector_detect ==
    /\ pc = "idle"
    /\ \E a \in ImageSignalValues, l \in ImageSignalValues, c \in ImageSignalValues,
          faults \in FaultSets(ImageFaultPoints) :
         \E res \in FaceNetDetector_detect_results(a, l, c, faults) :
            /\ pc' = "returned"
            /\ call' = "image"
            /\ signals' = IF "imread" \in faults THEN <<>>
                          ELSE [authenticity |-> a, consistency |-> l, artifact |-> c]
            /\ failed' = faults
            /\ overall_score' = res.score
            /\ outcome' = res.out
            /\ UNCHANGED <<tempFiles, apiVars, exVars, spVars, auxVars>>

----------------------------------------------------------------------------
(* voice_detection.py *)

(* a slip in the audio weights: the artifact weight left at 0.2 *)
AudioWeights_short == [naturalness |-> 40, consistency |-> 30, artifact |-> 20]

(* a slip in the audio weights: naturalness and consistency swapped *)
AudioWeights_swapped == [naturalness |-> 30, consistency |-> 40, artifact |-> 30]

AudioWeights == [naturalness |-> 40, consistency |-> 30, artifact |-> 30]
AudioThreshold == 720000

(* values of the three audio signals.  The mock extractors draw them with  *)
(* np.random.uniform (0.6..0.9, 0.65..0.88, 0.7..0.9); the fusion is        *)
(* exercised over signals from all of [0, 1].                              *)
AudioSignalValues == {0, 500000, 720000, 720100, 750000, 800000, 900000, 1000000}

AudioFaultPoints == {"load", "stft"}

(* what the synthesis-artifact extractor returns when its analysis raises *)
ArtifactFallback == 500000

(* a slip in the handler: the neutral 0.8 of the short-media defaults *)
detect_synthesis_artifacts_neutral(c, faults) ==
    IF "stft" \in faults THEN 800000 ELSE c

(* _detect_synthesis_artifacts: the regularity score, or 0.5 when the      *)
(* spectral analysis raises                                                *)
detect_synthesis_artifacts(c, faults) ==
    IF "stft" \in faults THEN ArtifactFallback ELSE c

(* analyze_voice_characteristics: raises when the audio cannot be loaded *)
analyze_voice_characteristics(n, k, c, faults) ==
    IF "load" \in faults
    THEN Raised("LoadError")
    ELSE Returned([naturalness_score |-> n,
                   consistency_score |-> k,
                   artifact_score |-> detect_synthesis_artifacts(c, faults)])

AudioOverallScore(analysis) ==
      Weighted(AudioWeights.naturalness, analysis.naturalness_score)
    + Weighted(AudioWeights.consistency, analysis.consistency_score)
    + Weighted(AudioWeights.artifact, analysis.artifact_score)

AudioIsAuthentic(score) == score > AudioThreshold

(* ResemblyzerDetector.detect: the set of things the call can do; a result *)
(* is paired with the local overall_score it was computed from             *)
ResemblyzerDetector_detect_results(n, k, c, faults) ==
    LET analysis == analyze_voice_characteristics(n, k, c, faults)
    IN  IF analysis.status = "raised"
        THEN {[out |-> analysis, score |-> -1]}
        ELSE LET score == AudioOverallScore(analysis.value)
             IN  {[out |-> Returned([result |-> IF AudioIsAuthentic(score)
                                                THEN "authentic" ELSE "deepfake",
                                     confidence |-> conf,
                                     model |-> "Resemblyzer + ECAPA-TDNN",
                                     details |-> analysis.value]),
                   score |-> score] : conf \in round2(score)}

ResemblyzerDetector_detect ==
    /\ pc = "idle"
    /\ \E n \in AudioSignalValues, k \in AudioSignalValues, c \in AudioSignalValues,
          faults \in FaultSets(AudioFaultPoints) :
         \E res \in ResemblyzerDetector_detect_results(n, k, c, faults) :
            /\ pc' = "returned"
            /\ call' = "audio"
            /\ signals' = IF "load" \in faults THEN <<>>
                          ELSE [naturalness |-> n, consistency |-> k,
                                artifact |-> IF "stft" \in faults THEN -1 ELSE c]
            /\ failed' = IF "load" \in faults THEN {"load"} ELSE faults
            /\ overall_score' = res.score
            /\ outcome' = res.out
            /\ UNCHANGED <<tempFiles, apiVars, exVars, spVars, auxVars>>

(* ECAPATDNNDetector.verify_speaker_consistency *)

SampleRate == 22050             \* librosa.load's default sr
SegmentSeconds == 3
MinSegmentSeconds == 1
SpeakerDefault == 800000        \* 'consistency_score' for short audio
SpeakerFallback == 500000       \* 'consistency_score' when the analysis raises

(* [audio[i:i+segment_length] for i in range(0, len(audio), segment_length)], *)
(* as the list of the segments' lengths                                       *)
RECURSIVE SegmentsFrom(_, _, _)
SegmentsFrom(i, len, segment_length) ==
    IF i >= len THEN <<>>
    ELSE <<IF len - i < segment_length THEN len - i ELSE segment_length>>
         \o SegmentsFrom(i + segment_length, len, segment_length)

(* a slip in the test: every non-empty segment gets an embedding *)
IsUsableSegment_nonempty(seglen) == seglen > 0

(* a slip in the test: a segment of exactly one second gets an embedding *)
IsUsableSegment_atleast(seglen) == seglen >= MinSegmentSeconds * SampleRate

(* the segments that get an embedding: len(segment) > sr *)
IsUsableSegment(seglen) == seglen > MinSegmentSeconds * SampleRate

UsableSegments(segments) ==
    {i \in 1..Len(segments) : IsUsableSegment(segments[i])}

verify_speaker_consistency(len, p, faults) ==
    IF "speaker" \in faults
    THEN [consistency_score |-> SpeakerFallback]
    ELSE LET segments == SegmentsFrom(0, len, SegmentSeconds * SampleRate)
         IN  IF Cardinality(UsableSegments(segments)) < 2
             THEN [consistency_score |-> SpeakerDefault]
             ELSE [consistency_score |-> p, num_segments |-> Len(segments)]

----------------------------------------------------------------------------
(* video_detection.py *)

(* a slip in the video weights: temporal and sync swapped *)
VideoWeights_swapped == [face |-> 35, audio |-> 25, temporal |-> 15, sync |-> 25]

VideoWeights == [face |-> 35, audio |-> 25, temporal |-> 25, sync |-> 15]
VideoThreshold == 720000

DefaultMaxFrames == 30          \* extract_frames(video_path, max_frames=30)
MockAudioSeconds == 5           \* extract_audio writes 5 seconds of audio
TemporalDefault == 800000       \* 'consistency_score' for fewer than 2 frames
TemporalFallback == 500000      \* 'avg_consistency' when the analysis raises
SyncFallback == 500000          \* 'sync_score' when the analysis raises

(* a slip in the stop test of the read loop: one frame early *)
ReachedMaxFrames_early(frames, max_frames) == Len(frames) >= max_frames - 1

(* len(frames) >= max_frames: the read loop stops *)
ReachedMaxFrames(frames, max_frames) == Len(frames) >= max_frames

(* frame_idx % step == 0: the frame is kept *)
IsSampled(frame_idx, step) == frame_idx % step = 0

(* the read loop of extract_frames: frames are named by their index *)
RECURSIVE ReadLoop(_, _, _, _, _)
ReadLoop(frames, frame_idx, frame_count, step, max_frames) ==
    IF frame_idx >= frame_count
    THEN frames
    ELSE IF IsSampled(frame_idx, step)
         THEN LET appended == Append(frames, frame_idx)
              IN  IF ReachedMaxFrames(appended, max_frames)
                  THEN appended
                  ELSE ReadLoop(appended, frame_idx + 1, frame_count, step, max_frames)
         ELSE ReadLoop(frames, frame_idx + 1, frame_count, step, max_frames)

(* a slip in the interval: rounded up instead of down *)
SamplingStep_ceil(frame_count, max_frames) ==
    IF frame_count <= max_frames THEN 1
    ELSE (frame_count + max_frames - 1) \div max_frames

SamplingStep(frame_count, max_frames) ==
    IF frame_count <= max_frames THEN 1 ELSE frame_count \div max_frames

extract_frames(frame_count, max_frames) ==
    ReadLoop(<<>>, 0, frame_count, SamplingStep(frame_count, max_frames), max_frames)

(* analyze_temporal_consistency never raises: fewer than 2 frames return   *)
(* the default before anything is analysed, and the handler substitutes    *)
(* 0.5 when the analysis raises                                            *)
analyze_temporal_consistency(frames, t, faults) ==
    IF Len(frames) < 2
    THEN [consistency_score |-> TemporalDefault]
    ELSE IF "temporal" \in faults
         THEN [avg_consistency |-> TemporalFallback]
         ELSE [avg_consistency |-> t, frame_count |-> Len(frames)]

(* the temporal analysis can only fail once it analyses frames *)
TemporalFired(frames, faults) ==
    IF Len(frames) < 2 THEN {} ELSE faults \cap {"temporal"}

(* a slip in the handler: 50 (a percentage) for 0.5 *)
analyze_audio_video_sync_percent(s, faults) ==
    IF "sync" \in faults
    THEN [sync_score |-> 50 * 1000000]
    ELSE [sync_score |-> s]

(* analyze_audio_video_sync never raises: its handler substitutes 0.5 *)
analyze_audio_video_sync(s, faults) ==
    IF "sync" \in faults
    THEN [sync_score |-> SyncFallback]
    ELSE [sync_score |-> s]

VideoOverallScore(face_score, audio_score, temporal_score, sync_score) ==
      Weighted(VideoWeights.face, face_score)
    + Weighted(VideoWeights.audio, audio_score)
    + Weighted(VideoWeights.temporal, temporal_score)
    + Weighted(VideoWeights.sync, sync_score)

(* a slip in the comparison: >= for > *)
VideoIsAuthentic_nonstrict(score) == score >= VideoThreshold

VideoIsAuthentic(score) == score > VideoThreshold

(* analysis['confidence'] / 100: a confidence as a score *)
ConfidenceAsScore(confidence) == confidence * 100

(* the signals of a video: the three image signals of its representative   *)
(* frame, the three audio signals of its track, the mean frame-to-frame    *)
(* consistency, the sync score and the speaker consistency                 *)
FrameFaceInputs ==
    {<<0, 0, 0>>, <<720000, 720000, 720000>>, <<720000, 720000, 720100>>,
     <<900000, 800000, 800000>>, <<1000000, 1000000, 1000000>>}
TrackVoiceInputs ==
    {<<0, 0, 0>>, <<720000, 720000, 720000>>, <<720100, 720000, 720000>>,
     <<500000, 500000, 500000>>, <<1000000, 1000000, 1000000>>}
TemporalValues == {0, 720000, 800000, 1000000}
SyncValues == {0, 720000, 1000000}
SpeakerValues == {750000, 920000}

VideoFaultPoints ==
    {"open", "audio_tmp", "audio_write", "frame_tmp", "imread", "temporal",
     "load", "stft", "speaker", "sync"}

(* one way a call of VideoDeepfakeDetector.detect can end *)
VideoEnd(out, score, created, unlinked, fired) ==
    [out |-> out, score |-> score, left |-> created \ unlinked, fired |-> fired]

(* the 'finally' clause: the audio file is unlinked iff audio_path was set *)
FinallyUnlinked(audio_path_set) == IF audio_path_set THEN {"audio_wav"} ELSE {}

(* VideoDeepfakeDetector.detect, statement by statement *)
VideoDeepfakeDetector_detect_results(frame_count, f, v, t, s, p, faults) ==
    LET frames == extract_frames(frame_count, DefaultMaxFrames)
    IN
    IF "open" \in faults
    THEN {VideoEnd(Raised("ValueError"), -1, {}, FinallyUnlinked(FALSE), {"open"})}
    ELSE IF "audio_tmp" \in faults
    THEN {VideoEnd(Raised("OSError"), -1, {}, FinallyUnlinked(FALSE), {"audio_tmp"})}
    ELSE IF "audio_write" \in faults
    THEN {VideoEnd(Raised("WriteError"), -1, {"audio_wav"}, FinallyUnlinked(FALSE),
                   {"audio_write"})}
    ELSE IF "frame_tmp" \in faults
    THEN {VideoEnd(Raised("OSError"), -1, {"audio_wav"}, FinallyUnlinked(TRUE),
                   {"frame_tmp"})}
    ELSE IF Len(frames) = 0
    THEN {VideoEnd(Raised("IndexError"), -1, {"audio_wav", "frame_jpg"},
                   FinallyUnlinked(TRUE), {})}
    ELSE IF "imread" \in faults
    THEN {VideoEnd(Raised("ValueError"), -1, {"audio_wav", "frame_jpg"},
                   FinallyUnlinked(TRUE), {"imread"})}
    ELSE IF "load" \in faults
    THEN {VideoEnd(Raised("LoadError"), -1, {"audio_wav", "frame_jpg"},
                   {"frame_jpg"} \cup FinallyUnlinked(TRUE),
                   TemporalFired(frames, faults) \cup {"load"})}
    ELSE
      LET temporal_analysis == analyze_temporal_consistency(frames, t, faults)
          speaker_analysis ==
              verify_speaker_consistency(MockAudioSeconds * SampleRate, p, faults)
          sync_analysis == analyze_audio_video_sync(s, faults)
          fired == TemporalFired(frames, faults) \cup (faults \cap {"stft", "speaker", "sync"})
          created == {"audio_wav", "frame_jpg"}
          unlinked == {"frame_jpg"} \cup FinallyUnlinked(TRUE)
      IN
      IF "avg_consistency" \notin DOMAIN temporal_analysis
      THEN {VideoEnd(Raised("KeyError"), -1, created, unlinked, fired)}
      ELSE
        UNION {
          UNION {
            LET face_analysis == fr.out.value
                audio_analysis == ar.out.value
                score == VideoOverallScore(
                             ConfidenceAsScore(face_analysis.confidence),
                             ConfidenceAsScore(audio_analysis.confidence),
                             temporal_analysis.avg_consistency,
                             sync_analysis.sync_score)
            IN  {VideoEnd(Returned([result |-> IF VideoIsAuthentic(score)
                                               THEN "authentic" ELSE "deepfake",
                                    confidence |-> conf,
                                    model |-> "FaceNet + ECAPA-TDNN",
                                    details |-> [face_analysis |-> face_analysis,
                                                 audio_analysis |-> audio_analysis,
                                                 temporal_analysis |-> temporal_analysis,
                                                 sync_analysis |-> sync_analysis,
                                                 speaker_analysis |-> speaker_analysis]]),
                          score, created, unlinked, fired)
                   : conf \in round2(score)}
            : ar \in ResemblyzerDetector_detect_results(v[1], v[2], v[3], faults) }
          : fr \in FaceNetDetector_detect_results(f[1], f[2], f[3], faults) }

VideoDeepfakeDetector_detect ==
    /\ pc = "idle"
    /\ \E frame_count \in 0..MaxFrameCount, f \in FrameFaceInputs, v \in TrackVoiceInputs,
          t \in TemporalValues, s \in SyncValues, p \in SpeakerValues,
          faults \in FaultSets(VideoFaultPoints) :
         \E end \in VideoDeepfakeDetector_detect_results(frame_count, f, v, t, s, p, faults) :
            /\ pc' = "returned"
            /\ call' = "video"
            /\ signals' = IF end.out.status = "returned"
                          THEN [frames |-> Len(extract_frames(frame_count, DefaultMaxFrames)),
                                face |-> f, voice |-> v]
                          ELSE [frames |-> Len(extract_frames(frame_count, DefaultMaxFrames))]
            /\ failed' = end.fired
            /\ overall_score' = end.score
            /\ outcome' = end.out
            /\ tempFiles' = tempFiles \cup end.left
            /\ UNCHANGED <<apiVars, exVars, spVars, auxVars>>

----------------------------------------------------------------------------
(* voice_detection.py: verify_speaker_consistency on its own *)

(* the audio lengths verify_speaker_consistency is run on: around every    *)
(* half second, one sample less, exact, one sample more                   *)
AudioLengths ==
    {n \in {k * (SampleRate \div 2) + d : k \in 0..MaxAudioHalfSeconds, d \in {-1, 0, 1}} :
        n >= 0}

(* one call of verify_speaker_consistency; librosa.load may raise *)
verify_speaker_consistency_call ==
    /\ spPc = "idle"
    /\ \E len \in AudioLengths, p \in SpeakerValues, faults \in SUBSET {"speaker"} :
         LET segments == SegmentsFrom(0, len, SegmentSeconds * SampleRate)
         IN  /\ spLen' = IF "speaker" \in faults THEN -1 ELSE len
             /\ spSegments' = IF "speaker" \in faults THEN <<>> ELSE segments
             /\ spEmbedded' = IF "speaker" \in faults THEN {} ELSE UsableSegments(segments)
             /\ spResult' = verify_speaker_consistency(len, p, faults)
    /\ spPc' = "returned"
    /\ UNCHANGED <<detVars, apiVars, exVars, auxVars>>

(* the caller takes the dict *)
verify_speaker_consistency_done ==
    /\ spPc = "returned"
    /\ spPc' = "idle"
    /\ spLen' = 0
    /\ spSegments' = <<>>
    /\ spEmbedded' = {}
    /\ spResult' = <<>>
    /\ UNCHANGED <<detVars, apiVars, exVars, auxVars>>

----------------------------------------------------------------------------
(* video_detection.py: extract_frames, one iteration of its loop at a time *)

(* the videos and max_frames values extract_frames is run on *)
FrameInputs ==
    ((0..MaxVideoFrames) \X (1..MaxSampleFrames))
        \cup {<<100, 30>>, <<10, 30>>, <<59, 30>>}

(* from the entry to the first test of the loop; VideoCapture may not open *)
extract_frames_open ==
    /\ exPc = "idle"
    /\ \E input \in FrameInputs, opened \in BOOLEAN :
         /\ exFrameCount' = input[1]
         /\ exMaxFrames' = input[2]
         /\ IF opened
            THEN /\ exPc' = "loop"
                 /\ exCapOpen' = TRUE
                 /\ exStep' = SamplingStep(input[1], input[2])
            ELSE /\ exPc' = "raised"
                 /\ exCapOpen' = FALSE
                 /\ exStep' = 0
    /\ exFrameIdx' = 0
    /\ exFrames' = <<>>
    /\ UNCHANGED <<detVars, apiVars, spVars, auxVars>>

(* a return that leaves the capture open *)
cap_release_skipped(open) == open

(* cap.release() *)
cap_release(open) == FALSE

(* one iteration: cap.read(), the test of frame_idx, the append *)
extract_frames_read ==
    /\ exPc = "loop"
    /\ exFrameIdx < exFrameCount
    /\ IF IsSampled(exFrameIdx, exStep)
       THEN /\ exFrames' = Append(exFrames, exFrameIdx)
            /\ IF ReachedMaxFrames(Append(exFrames, exFrameIdx), exMaxFrames)
               THEN \* break, cap.release(), return frames
                    /\ exPc' = "returned"
                    /\ exCapOpen' = cap_release(exCapOpen)
                    /\ UNCHANGED exFrameIdx
               ELSE /\ exFrameIdx' = exFrameIdx + 1
                    /\ UNCHANGED <<exPc, exCapOpen>>
       ELSE /\ exFrameIdx' = exFrameIdx + 1
            /\ UNCHANGED <<exFrames, exPc, exCapOpen>>
    /\ UNCHANGED <<exFrameCount, exMaxFrames, exStep, detVars, apiVars, spVars, auxVars>>

(* cap.read() reports the end of the stream: break, cap.release(), return *)
extract_frames_end_of_stream ==
    /\ exPc = "loop"
    /\ exFrameIdx >= exFrameCount
    /\ exPc' = "returned"
    /\ exCapOpen' = cap_release(exCapOpen)
    /\ UNCHANGED <<exFrameCount, exMaxFrames, exStep, exFrameIdx, exFrames, detVars, apiVars, spVars, auxVars>>

(* the caller takes the frames (or the exception) *)
extract_frames_done ==
    /\ exPc \in {"returned", "raised"}
    /\ exPc' = "idle"
    /\ exFrameCount' = 0
    /\ exMaxFrames' = 0
    /\ exStep' = 0
    /\ exFrameIdx' = 0
    /\ exFrames' = <<>>
    /\ exCapOpen' = FALSE
    /\ UNCHANGED <<detVars, apiVars, spVars, auxVars>>

----------------------------------------------------------------------------
(* The caller takes the result (or the exception); the files stay on disk. *)
Return ==
    /\ pc = "returned"
    /\ pc' = "idle"
    /\ call' = "none"
    /\ signals' = <<>>
    /\ failed' = {}
    /\ overall_score' = -1
    /\ outcome' = NoOutcome
    /\ UNCHANGED <<tempFiles, apiVars, exVars, spVars, auxVars>>

----------------------------------------------------------------------------
(* main.py: POST /api/detect *)

Requests == 1..NumRequests

(* supported_types, in the order of the dict *)
supported_types ==
    << [category |-> "image", mime_types |-> {"image/jpeg", "image/png", "image/webp"}],
       [category |-> "video", mime_types |-> {"video/mp4", "video/avi", "video/mov"}],
       [category |-> "audio", mime_types |-> {"audio/mpeg", "audio/wav", "audio/mp4",
                                              "audio/x-m4a"}] >>

(* the declared content types the clients of the model send *)
ContentTypes ==
    {"image/jpeg", "image/gif", "IMAGE/JPEG", "video/mp4", "video/quicktime",
     "audio/wav", "text/plain"}

(* file_handler.py: FileHandler.SUPPORTED_TYPES, in the order of the dict *)
SUPPORTED_TYPES ==
    << [category |-> "image", mime_types |-> {"image/jpeg", "image/jpg", "image/png",
                                              "image/webp", "image/gif"}],
       [category |-> "video", mime_types |-> {"video/mp4", "video/avi", "video/mov",
                                              "video/quicktime", "video/x-msvideo"}],
       [category |-> "audio", mime_types |-> {"audio/mpeg", "audio/mp3", "audio/wav",
                                              "audio/wave", "audio/x-wav", "audio/mp4",
                                              "audio/x-m4a"}] >>

(* str.lower() on the content types of the model: the one spelled in upper *)
(* case changes, the others are lower case already                         *)
lower(content_type) ==
    IF content_type = "IMAGE/JPEG" THEN "image/jpeg" ELSE content_type

(* FileHandler.validate_file_type: the first category that lists the type *)
(* in lower case, "none" for None                                          *)
validate_file_type(content_type) ==
    LET hits == {i \in 1..Len(SUPPORTED_TYPES) :
                    lower(content_type) \in SUPPORTED_TYPES[i].mime_types}
    IN  IF hits = {} THEN "none"
        ELSE SUPPORTED_TYPES[CHOOSE i \in hits : \A j \in hits : i <= j].category

(* a classifier that lets an unlisted type fall through to the last branch *)
ClassifyInline_default(content_type) ==
    LET hits == {i \in 1..Len(supported_types) :
                    content_type \in supported_types[i].mime_types}
    IN  IF hits = {} THEN "video"
        ELSE supported_types[CHOOSE i \in hits : \A j \in hits : i <= j].category

(* the loop over supported_types: the first category that lists the type *)
ClassifyInline(content_type) ==
    LET hits == {i \in 1..Len(supported_types) :
                    content_type \in supported_types[i].mime_types}
    IN  IF hits = {} THEN "none"
        ELSE supported_types[CHOOSE i \in hits : \A j \in hits : i <= j].category

(* the mock detectors of main.py: a confidence and, independently of it, a *)
(* coin; the confidences drawn are one below and one above the threshold   *)
MainFaceConfidences == {7000, 9500}
MainAudioConfidences == {6500, 9200}
MainVideoConfidences == {6000, 8800}

MainFaceNetDetector_detect(confidence, coin) ==
    [result |-> IF confidence > 8500 \/ coin THEN "authentic" ELSE "deepfake",
     confidence |-> confidence, model |-> "FaceNet + DeepFace"]

MainResemblyzerDetector_detect(confidence, coin) ==
    [result |-> IF confidence > 8000 \/ coin THEN "authentic" ELSE "deepfake",
     confidence |-> confidence, model |-> "Resemblyzer + ECAPA-TDNN"]

MainVideoDetector_detect(confidence, coin) ==
    [result |-> IF confidence > 7500 \/ coin THEN "authentic" ELSE "deepfake",
     confidence |-> confidence, model |-> "FaceNet + ECAPA-TDNN"]

(* a dispatch with the image and audio branches exchanged *)
DispatchedDetector_swapped(file_type) ==
    IF file_type = "image" THEN "audio_detector"
    ELSE IF file_type = "audio" THEN "face_detector"
    ELSE "video_detector"

(* the if / elif / else of detect_deepfake: which detector runs *)
DispatchedDetector(file_type) ==
    IF file_type = "image" THEN "face_detector"
    ELSE IF file_type = "audio" THEN "audio_detector"
    ELSE "video_detector"

DetectorResults(detector) ==
    IF detector = "face_detector"
    THEN {MainFaceNetDetector_detect(c, coin) : c \in MainFaceConfidences, coin \in BOOLEAN}
    ELSE IF detector = "audio_detector"
    THEN {MainResemblyzerDetector_detect(c, coin) : c \in MainAudioConfidences, coin \in BOOLEAN}
    ELSE {MainVideoDetector_detect(c, coin) : c \in MainVideoConfidences, coin \in BOOLEAN}

(* what a failing detector can raise *)
DetectorErrors ==
    {[kind |-> "ValueError", msg |-> "unreadable"],
     [kind |-> "RuntimeError", msg |-> "unreadable"]}

NoError == [kind |-> "none", msg |-> ""]

(* file_handler.py: MAX_FILE_SIZES, in bytes *)
MAX_FILE_SIZES ==
    [image |-> 10 * 1024 * 1024, video |-> 100 * 1024 * 1024, audio |-> 50 * 1024 * 1024]

(* file_handler.py: FileHandler.validate_file_size; detect_deepfake never calls it *)
validate_file_size(file_size, file_type) ==
    IF file_type \notin DOMAIN MAX_FILE_SIZES THEN FALSE
    ELSE file_size <= MAX_FILE_SIZES[file_type]

(* len(content) of the uploads the clients send: images of the largest    *)
(* size the file handler allows and of one byte more, audio of the largest *)
(* size allowed, videos of one byte more                                   *)
UploadSizes(file_type) ==
    IF file_type = "image" THEN {MAX_FILE_SIZES.image, MAX_FILE_SIZES.image + 1}
    ELSE IF file_type = "audio" THEN {MAX_FILE_SIZES.audio}
    ELSE {MAX_FILE_SIZES.video + 1}

HttpError(code, detail) == [status |-> "http_error", code |-> code, detail |-> detail]
Response(file_type, result) ==
    [status |-> "response", file_type |-> file_type, result |-> result.result,
     confidence |-> result.confidence, model |-> result.model]

(* a cleanup that empties the temp directory *)
UnlinkUpload_all(files, path) == {}

(* the 'finally' clause: os.path.exists(temp_file_path) and os.unlink *)
UnlinkUpload(files, path) == files \ {path}

(* detect_deepfake from its entry to 'await file.read()' *)
detect_deepfake_begin(r) ==
    /\ reqPc[r] = "idle"
    /\ \E content_type \in ContentTypes, fault \in {"none", "filename", "tmp"} :
         LET file_type == ClassifyInline(content_type)
         IN  IF file_type = "none"
             THEN /\ fault = "none"
                  /\ reqPc' = [reqPc EXCEPT ![r] = "done"]
                  /\ reqOutcome' = [reqOutcome EXCEPT ![r] =
                                        HttpError(400, <<"Unsupported file type", content_type>>)]
                  /\ reqContentType' = [reqContentType EXCEPT ![r] = content_type]
                  /\ UNCHANGED <<reqType, reqFile, uploadFiles, filesCreated>>
             ELSE IF fault = "filename"
             THEN /\ reqPc' = [reqPc EXCEPT ![r] = "done"]
                  /\ reqType' = [reqType EXCEPT ![r] = file_type]
                  /\ reqOutcome' = [reqOutcome EXCEPT ![r] = Raised("AttributeError")]
                  /\ reqContentType' = [reqContentType EXCEPT ![r] = content_type]
                  /\ UNCHANGED <<reqFile, uploadFiles, filesCreated>>
             ELSE IF fault = "tmp"
             THEN /\ reqPc' = [reqPc EXCEPT ![r] = "done"]
                  /\ reqType' = [reqType EXCEPT ![r] = file_type]
                  /\ reqOutcome' = [reqOutcome EXCEPT ![r] = Raised("OSError")]
                  /\ reqContentType' = [reqContentType EXCEPT ![r] = content_type]
                  /\ UNCHANGED <<reqFile, uploadFiles, filesCreated>>
             ELSE /\ filesCreated < MaxUploads
                  /\ filesCreated' = filesCreated + 1
                  /\ uploadFiles' = uploadFiles \cup {filesCreated + 1}
                  /\ reqFile' = [reqFile EXCEPT ![r] = filesCreated + 1]
                  /\ reqType' = [reqType EXCEPT ![r] = file_type]
                  /\ reqPc' = [reqPc EXCEPT ![r] = "reading"]
                  /\ reqContentType' = [reqContentType EXCEPT ![r] = content_type]
                  /\ UNCHANGED reqOutcome
    /\ UNCHANGED <<reqSize, reqError, reqResult, reqInvoked, detVars, exVars, spVars, auxVars>>

(* from the return of 'await file.read()' to 'await asyncio.sleep(...)' *)
detect_deepfake_after_read(r) ==
    /\ reqPc[r] = "reading"
    /\ \E fault \in {"none", "read", "write", "detector"} :
         IF fault \in {"read", "write"}
         THEN \* the 'with' block closes the file and the exception leaves the handler
              /\ reqPc' = [reqPc EXCEPT ![r] = "done"]
              /\ reqOutcome' = [reqOutcome EXCEPT ![r] =
                                    Raised(IF fault = "read" THEN "ReadError" ELSE "OSError")]
              /\ UNCHANGED <<reqSize, reqError, reqResult, reqInvoked, uploadFiles>>
         ELSE IF fault = "detector"
         THEN \E size \in UploadSizes(reqType[r]), e \in DetectorErrors :
              /\ reqSize' = [reqSize EXCEPT ![r] = size]
              /\ reqInvoked' = [reqInvoked EXCEPT ![r] = Append(@, DispatchedDetector(reqType[r]))]
              /\ reqError' = [reqError EXCEPT ![r] = e]
              /\ reqPc' = [reqPc EXCEPT ![r] = "done"]
              /\ reqOutcome' = [reqOutcome EXCEPT ![r] =
                                    HttpError(500, <<"Detection failed", e.msg>>)]
              /\ uploadFiles' = UnlinkUpload(uploadFiles, reqFile[r])
              /\ UNCHANGED reqResult
         ELSE \E size \in UploadSizes(reqType[r]),
                 result \in DetectorResults(DispatchedDetector(reqType[r])) :
              /\ reqSize' = [reqSize EXCEPT ![r] = size]
              /\ reqInvoked' = [reqInvoked EXCEPT ![r] = Append(@, DispatchedDetector(reqType[r]))]
              /\ UNCHANGED reqError
              /\ reqResult' = [reqResult EXCEPT ![r] = result]
              /\ reqPc' = [reqPc EXCEPT ![r] = "sleeping"]
              /\ UNCHANGED <<reqOutcome, uploadFiles>>
    /\ UNCHANGED <<reqContentType, reqType, reqFile, filesCreated, detVars, exVars, spVars, auxVars>>

(* from the return of 'await asyncio.sleep(...)' to the end *)
detect_deepfake_after_sleep(r) ==
    /\ reqPc[r] = "sleeping"
    /\ reqPc' = [reqPc EXCEPT ![r] = "done"]
    /\ reqOutcome' = [reqOutcome EXCEPT ![r] = Response(reqType[r], reqResult[r])]
    /\ uploadFiles' = UnlinkUpload(uploadFiles, reqFile[r])
    /\ UNCHANGED <<reqContentType, reqType, reqSize, reqError, reqFile, reqResult, reqInvoked,
                   filesCreated, detVars, exVars, spVars, auxVars>>

(* the server is done with the request; the slot takes the next one *)
RequestFinished(r) ==
    /\ reqPc[r] = "done"
    /\ reqPc' = [reqPc EXCEPT ![r] = "idle"]
    /\ reqContentType' = [reqContentType EXCEPT ![r] = ""]
    /\ reqType' = [reqType EXCEPT ![r] = "none"]
    /\ reqSize' = [reqSize EXCEPT ![r] = -1]
    /\ reqError' = [reqError EXCEPT ![r] = NoError]
    /\ reqFile' = [reqFile EXCEPT ![r] = 0]
    /\ reqResult' = [reqResult EXCEPT ![r] = <<>>]
    /\ reqInvoked' = [reqInvoked EXCEPT ![r] = <<>>]
    /\ reqOutcome' = [reqOutcome EXCEPT ![r] = NoOutcome]
    /\ UNCHANGED <<uploadFiles, filesCreated, detVars, exVars, spVars, auxVars>>

----------------------------------------------------------------------------
(* auth_service.py: AuthService.  Time is counted in minutes.              *)

jwt_expire_minutes == 2     \* JWT_EXPIRE_MINUTES of the deployment modelled (unset, it is 60)
MaxNow == 5                 \* the clock runs from 0 to MaxNow
MaxTokens == 3              \* create_jwt_token returns at most this many different tokens

(* the users that log in: user_data['id'], user_data['email'] *)
Users == {[id |-> 1, email |-> "a@example.com"], [id |-> 2, email |-> "b@example.com"]}

(* jwt.encode(payload, self.jwt_secret, algorithm): the payload, signed *)
jwt_encode(payload, secret) == [payload |-> payload, signed_with |-> secret]

(* create_jwt_token at time t *)
create_jwt_token(user_data, t) ==
    jwt_encode([user_id |-> user_data.id, email |-> user_data.email,
                exp |-> t + jwt_expire_minutes, iat |-> t], "jwt_secret")

(* jwt.decode(token, self.jwt_secret, algorithms) at time t: the signature *)
(* is verified, then the exp claim (PyJWT 2: expired when exp <= now)      *)
jwt_decode(token, secret, t) ==
    IF token.signed_with # secret THEN Raised("InvalidSignatureError")
    ELSE IF token.payload.exp <= t THEN Raised("ExpiredSignatureError")
    ELSE Returned(token.payload)

(* verify_jwt_token: every exception of jwt.decode becomes None *)
verify_jwt_token(token, t) ==
    LET decoded == jwt_decode(token, "jwt_secret", t)
    IN  IF decoded.status = "raised" THEN None ELSE decoded.value

(* a refresh that reads the payload without verifying the token *)
refresh_token_unverified(token, t) ==
    create_jwt_token([id |-> token.payload.user_id, email |-> token.payload.email], t)

(* refresh_token at time t *)
refresh_token(token, t) ==
    LET payload == verify_jwt_token(token, t)
    IN  IF payload = None THEN None
        ELSE create_jwt_token([id |-> payload.user_id, email |-> payload.email], t)

(* extract_user_from_token: the header is "<scheme> <token>" *)
extract_user_from_token(authorization_header, t) ==
    IF authorization_header.scheme # "Bearer" THEN None
    ELSE LET payload == verify_jwt_token(authorization_header.token, t)
         IN  IF payload # None
             THEN [user_id |-> payload.user_id, email |-> payload.email]
             ELSE None

(* a token signed with another secret, with an exp far in the future *)
ForgedToken ==
    jwt_encode([user_id |-> 1, email |-> "a@example.com", exp |-> 1000, iat |-> 0],
               "other_secret")

(* the tokens a client can present *)
PresentedTokens == issued \cup {ForgedToken}

(* a minute passes *)
Tick ==
    /\ now < MaxNow
    /\ now' = now + 1
    /\ UNCHANGED <<issued, authCall, authResult, detVars, apiVars, exVars, spVars, dbVars, scVars>>

(* a login: create_jwt_token for the user *)
create_jwt_token_call ==
    /\ \E user_data \in Users :
         LET token == create_jwt_token(user_data, now)
         IN  /\ Cardinality(issued \cup {token}) <= MaxTokens
             /\ issued' = issued \cup {token}
             /\ authCall' = [op |-> "create", scheme |-> "", token |-> None, at |-> now]
             /\ authResult' = token
    /\ UNCHANGED <<now, detVars, apiVars, exVars, spVars, dbVars, scVars>>

verify_jwt_token_call ==
    /\ \E token \in PresentedTokens :
         /\ authCall' = [op |-> "verify", scheme |-> "", token |-> token, at |-> now]
         /\ authResult' = verify_jwt_token(token, now)
    /\ UNCHANGED <<now, issued, detVars, apiVars, exVars, spVars, dbVars, scVars>>

refresh_token_call ==
    /\ \E token \in PresentedTokens :
         LET new_token == refresh_token(token, now)
         IN  /\ new_token # None => Cardinality(issued \cup {new_token}) <= MaxTokens
             /\ issued' = IF new_token = None THEN issued ELSE issued \cup {new_token}
             /\ authCall' = [op |-> "refresh", scheme |-> "", token |-> token, at |-> now]
             /\ authResult' = new_token
    /\ UNCHANGED <<now, detVars, apiVars, exVars, spVars, dbVars, scVars>>

extract_user_from_token_call ==
    /\ \E scheme \in {"Bearer", "Basic"}, token \in PresentedTokens :
         /\ authCall' = [op |-> "extract", scheme |-> scheme, token |-> token, at |-> now]
         /\ authResult' = extract_user_from_token([scheme |-> scheme, token |-> token], now)
    /\ UNCHANGED <<now, issued, detVars, apiVars, exVars, spVars, dbVars, scVars>>

----------------------------------------------------------------------------
(* connection.py: sessions of the database *)

MaxSessions == 4            \* SessionLocal() is called at most this many times

(* get_db up to its yield: db = SessionLocal(), handed to the request *)
get_db_enter ==
    /\ dbCreated < MaxSessions
    /\ dbCreated' = dbCreated + 1
    /\ dbOpen' = dbOpen \cup {dbCreated + 1}
    /\ dbHeld' = dbHeld \cup {dbCreated + 1}
    /\ UNCHANGED <<dbPc, dbResult, detVars, apiVars, exVars, spVars, authVars, scVars>>

(* get_db after its yield, the request over or failed: finally db.close() *)
get_db_exit ==
    /\ \E db \in dbHeld :
         /\ dbOpen' = dbOpen \ {db}
         /\ dbHeld' = dbHeld \ {db}
    /\ UNCHANGED <<dbPc, dbCreated, dbResult, detVars, apiVars, exVars, spVars, authVars, scVars>>

(* check_database_health: SessionLocal() or db.execute may raise *)
check_database_health ==
    /\ dbPc = "idle"
    /\ \E fault \in {"none", "session", "execute"} :
         IF fault = "session"
         THEN \* SessionLocal() raises: no session, except: return False
              /\ dbResult' = FALSE
              /\ UNCHANGED <<dbCreated, dbOpen>>
         ELSE /\ dbCreated < MaxSessions
              /\ dbCreated' = dbCreated + 1
              /\ IF fault = "execute"
                 THEN \* db.execute raises: db.close() is skipped, except: return False
                      /\ dbOpen' = dbOpen \cup {dbCreated + 1}
                      /\ dbResult' = FALSE
                 ELSE \* db.execute, db.close(), return True
                      /\ dbOpen' = dbOpen
                      /\ dbResult' = TRUE
    /\ dbPc' = "returned"
    /\ UNCHANGED <<dbHeld, detVars, apiVars, exVars, spVars, authVars, scVars>>

(* the caller takes the answer *)
check_database_health_done ==
    /\ dbPc = "returned"
    /\ dbPc' = "idle"
    /\ dbResult' = None
    /\ UNCHANGED <<dbCreated, dbOpen, dbHeld, detVars, apiVars, exVars, spVars, authVars, scVars>>

----------------------------------------------------------------------------
(* file_handler.py: SecurityScanner.  A file_content is modelled by the    *)
(* byte strings it contains, all of them within its first 512 bytes; its   *)
(* length and its hash play no part in the scan.                           *)

MaxMarkers == 2             \* a scanned content holds at most this many of the byte strings

(* the byte strings the contents scanned are made of *)
ContentMarkers == {"<script", "<SCRIPT", "mz", "#!/bin/", "Exif", "ID3", "ftyp"}

(* bytes.lower() on the byte strings of the model *)
lower_bytes(b) ==
    IF b = "<SCRIPT" THEN "<script"
    ELSE IF b = "MZ" THEN "mz"
    ELSE IF b = "\\x7fELF" THEN "\\x7felf"
    ELSE IF b = "Exif" THEN "exif"
    ELSE IF b = "ID3" THEN "id3"
    ELSE b

suspicious_patterns == <<"<script", "<?php", "#!/bin/", "MZ", "\\x7fELF">>

(* the loop over suspicious_patterns, its first k iterations *)
ScanPatterns(results, file_header, k) ==
    LET hit(pattern) == lower_bytes(pattern) \in file_header
        hits == SelectSeq(SubSeq(suspicious_patterns, 1, k), hit)
        messages == [n \in 1..Len(hits) |-> <<"Suspicious pattern detected", hits[n]>>]
    IN  [results EXCEPT !.is_safe = IF hits = <<>> THEN @ ELSE FALSE,
                        !.threats_detected = @ \o messages]

_scan_image_content(content) ==
    [image_specific_threats |->
        IF "Exif" \in content THEN <<"EXIF data present - review manually">> ELSE <<>>]

_scan_audio_content(content) ==
    [audio_specific_threats |-> IF "ID3" \in content THEN <<"ID3 tags present">> ELSE <<>>]

_scan_video_content(content) ==
    LET video_headers == {"ftyp", "moov", "RIFF"}
        header_found == content \cap video_headers # {}
    IN  [video_specific_threats |->
            IF ~header_found THEN <<"Suspicious video format">> ELSE <<>>]

(* dict.update: the keys of other are added to results, or replace its own *)
update(results, other) == other @@ results

(* a handler that marks the result unsafe and records no threat *)
ScanFailed_silent(results) == [results EXCEPT !.is_safe = FALSE]

(* the except clause of scan_file_content *)
ScanFailed(results) ==
    [results EXCEPT !.is_safe = FALSE,
                    !.threats_detected = Append(@, "Security scan failed")]

(* scan_file_content; raises_after = k in 0..5: an exception is raised in  *)
(* the try block when k patterns have been looked at (5: in the             *)
(* type-specific scan); -1: none is raised                                  *)
scan_file_content(file_content, file_type, raises_after) ==
    LET results == [is_safe |-> TRUE, threats_detected |-> <<>>,
                    file_hash |-> <<"sha256", file_content>>]
        file_header == {lower_bytes(b) : b \in file_content}
        k == IF raises_after = -1 THEN Len(suspicious_patterns) ELSE raises_after
        scanned == ScanPatterns(results, file_header, k)
    IN  IF raises_after # -1 THEN ScanFailed(scanned)
        ELSE IF file_type = "image" THEN update(scanned, _scan_image_content(file_content))
        ELSE IF file_type = "audio" THEN update(scanned, _scan_audio_content(file_content))
        ELSE IF file_type = "video" THEN update(scanned, _scan_video_content(file_content))
        ELSE scanned

scan_file_content_call ==
    /\ scPc = "idle"
    /\ \E file_content \in {c \in SUBSET ContentMarkers : Cardinality(c) <= MaxMarkers},
          file_type \in {"image", "audio", "video", "document"},
          raises_after \in -1..Len(suspicious_patterns) :
         /\ scContent' = file_content
         /\ scFileType' = file_type
         /\ scResult' = scan_file_content(file_content, file_type, raises_after)
    /\ scPc' = "returned"
    /\ UNCHANGED <<detVars, apiVars, exVars, spVars, authVars, dbVars>>

(* the caller takes the results *)
scan_file_content_done ==
    /\ scPc = "returned"
    /\ scPc' = "idle"
    /\ scContent' = {}
    /\ scFileType' = "none"
    /\ scResult' = None
    /\ UNCHANGED <<detVars, apiVars, exVars, spVars, authVars, dbVars>>

----------------------------------------------------------------------------
Init ==
    /\ pc = "idle"
    /\ call = "none"
    /\ signals = <<>>
    /\ failed = {}
    /\ overall_score = -1
    /\ outcome = NoOutcome
    /\ tempFiles = {}
    /\ reqPc = [r \in Requests |-> "idle"]
    /\ reqContentType = [r \in Requests |-> ""]
    /\ reqType = [r \in Requests |-> "none"]
    /\ reqSize = [r \in Requests |-> -1]
    /\ reqError = [r \in Requests |-> NoError]
    /\ reqFile = [r \in Requests |-> 0]
    /\ reqResult = [r \in Requests |-> <<>>]
    /\ reqInvoked = [r \in Requests |-> <<>>]
    /\ reqOutcome = [r \in Requests |-> NoOutcome]
    /\ uploadFiles = {}
    /\ filesCreated = 0
    /\ exPc = "idle"
    /\ exFrameCount = 0
    /\ exMaxFrames = 0
    /\ exStep = 0
    /\ exFrameIdx = 0
    /\ exFrames = <<>>
    /\ exCapOpen = FALSE
    /\ spPc = "idle"
    /\ spLen = 0
    /\ spSegments = <<>>
    /\ spEmbedded = {}
    /\ spResult = <<>>
    /\ now = 0
    /\ issued = {}
    /\ authCall = NoCall
    /\ authResult = None
    /\ dbPc = "idle"
    /\ dbCreated = 0
    /\ dbOpen = {}
    /\ dbHeld = {}
    /\ dbResult = None
    /\ scPc = "idle"
    /\ scContent = {}
    /\ scFileType = "none"
    /\ scResult = None

(* the detector modules, called one call at a time *)
Next ==
    \/ FaceNetDetector_detect
    \/ ResemblyzerDetector_detect
    \/ VideoDeepfakeDetector_detect
    \/ Return

Spec == Init /\ [][Next]_vars

(* the upload endpoint, its requests interleaved at their awaits *)
NextApi ==
    \E r \in Requests :
        \/ detect_deepfake_begin(r)
        \/ detect_deepfake_after_read(r)
        \/ detect_deepfake_after_sleep(r)
        \/ RequestFinished(r)

SpecApi == Init /\ [][NextApi]_vars

(* extract_frames on its own *)
NextFrames ==
    \/ extract_frames_open
    \/ extract_frames_read
    \/ extract_frames_end_of_stream
    \/ extract_frames_done

SpecFrames == Init /\ [][NextFrames]_vars

(* the loop is sequential code: once entered it keeps taking its next step *)
SpecFramesFair ==
    Init /\ [][NextFrames]_vars
         /\ WF_vars(extract_frames_read) /\ WF_vars(extract_frames_end_of_stream)

(* verify_speaker_consistency on its own *)
NextSpeaker ==
    \/ verify_speaker_consistency_call
    \/ verify_speaker_consistency_done

SpecSpeaker == Init /\ [][NextSpeaker]_vars

(* the auth service and its clock *)
NextAuth ==
    \/ Tick
    \/ create_jwt_token_call
    \/ verify_jwt_token_call
    \/ refresh_token_call
    \/ extract_user_from_token_call

SpecAuth == Init /\ [][NextAuth]_vars

(* the sessions of request handlers and of health checks *)
NextDb ==
    \/ get_db_enter
    \/ get_db_exit
    \/ check_database_health
    \/ check_database_health_done

SpecDb == Init /\ [][NextDb]_vars

(* the security scanner on its own *)
NextScan ==
    \/ scan_file_content_call
    \/ scan_file_content_done

SpecScan == Init /\ [][NextScan]_vars

----------------------------------------------------------------------------
(* Properties *)

DetectorReturned(which) ==
    pc = "returned" /\ call = which /\ outcome.status = "returned"

(* C1: VideoDeepfakeDetector.detect leaves none of the temporary files it  *)
(* created (the frame .jpg, the audio .wav) on disk when it returns or     *)
(* raises, on every exit path.                                             *)
C1_VideoTempFilesReleased ==
    (pc = "returned" /\ call = "video") => tempFiles = {}

(* C2: the upload temp file of a request is deleted before the request     *)
(* finishes, whatever the outcome, and when no request is in flight no     *)
(* upload temp file is on disk.                                            *)
C2_UploadTempFileDeleted ==
    /\ \A r \in Requests : reqPc[r] = "done" => reqFile[r] \notin uploadFiles
    /\ (\A r \in Requests : reqPc[r] \in {"idle", "done"}) => uploadFiles = {}

(* C3: a video that yields a representative frame but fewer than 2 sampled *)
(* frames, with no extractor failing, makes detect return a result fused   *)
(* with the neutral temporal score 0.8.                                    *)
C3_ShortVideoFusesNeutral ==
    (pc = "returned" /\ call = "video" /\ signals.frames = 1 /\ failed = {}) =>
        /\ outcome.status = "returned"
        /\ overall_score * 100 =
                 35 * (outcome.value.details.face_analysis.confidence * 100)
               + 25 * (outcome.value.details.audio_analysis.confidence * 100)
               + 25 * 800000
               + 15 * outcome.value.details.sync_analysis.sync_score

ClaimedThreshold(which) == IF which = "image" THEN 750000 ELSE 720000

C5_ThresholdTieIsDeepfake ==
    \A which \in {"image", "audio", "video"} :
        DetectorReturned(which) =>
            /\ overall_score = ClaimedThreshold(which) => outcome.value.result = "deepfake"
            /\ outcome.value.result = "authentic" => overall_score > ClaimedThreshold(which)
            /\ outcome.value.result \in {"authentic", "deepfake"}

C5_Witness ==
    /\ DetectorReturned("video")
    /\ overall_score = 720000
    /\ outcome.value.result = "deepfake"

(* C6: the image detector's overall score is 0.6 a + 0.2 l + 0.2 c, its    *)
(* verdict is 'authentic' iff the score is above 0.75, its confidence is   *)
(* the score times 100 rounded to two decimals; a = 0.9, l = 0.8, c = 0.8  *)
(* gives confidence 86.0, 'authentic'.                                     *)
C6_ImageFusion ==
    DetectorReturned("image") =>
        /\ overall_score * 100 =
               60 * signals.authenticity + 20 * signals.consistency + 20 * signals.artifact
        /\ (outcome.value.result = "authentic") <=> (overall_score > 750000)
        /\ outcome.value.result \in {"authentic", "deepfake"}
        /\ 2 * outcome.value.confidence * 100 - 2 * overall_score \in -100..100
        /\ signals = [authenticity |-> 900000, consistency |-> 800000, artifact |-> 800000]
               => outcome.value.confidence = 8600 /\ outcome.value.result = "authentic"

C6_Witness ==
    /\ DetectorReturned("image")
    /\ signals = [authenticity |-> 900000, consistency |-> 800000, artifact |-> 800000]
    /\ outcome.value.confidence = 8600

(* C7: the audio detector's overall score is 0.4 n + 0.3 k + 0.3 c over    *)
(* the three signals of its analysis, its verdict is 'authentic' iff the   *)
(* score is above 0.72, its confidence is the score times 100 rounded to   *)
(* two decimals; all three at 0.5 gives confidence 50.0, 'deepfake'.       *)
C7_AudioFusion ==
    DetectorReturned("audio") =>
        LET d == outcome.value.details
        IN  /\ overall_score * 100 =
                   40 * d.naturalness_score + 30 * d.consistency_score + 30 * d.artifact_score
            /\ d.naturalness_score = signals.naturalness
            /\ d.consistency_score = signals.consistency
            /\ "stft" \notin failed => d.artifact_score = signals.artifact
            /\ (outcome.value.result = "authentic") <=> (overall_score > 720000)
            /\ outcome.value.result \in {"authentic", "deepfake"}
            /\ 2 * outcome.value.confidence * 100 - 2 * overall_score \in -100..100
            /\ (d.naturalness_score = 500000 /\ d.consistency_score = 500000
                    /\ d.artifact_score = 500000)
                   => outcome.value.confidence = 5000 /\ outcome.value.result = "deepfake"

C7_Witness ==
    /\ DetectorReturned("audio")
    /\ signals = [naturalness |-> 500000, consistency |-> 500000, artifact |-> 500000]
    /\ outcome.value.confidence = 5000

(* the overall score of the audio detector behind an audio analysis *)
ClaimedAudioOverall(d) ==
    (40 * d.naturalness_score + 30 * d.consistency_score + 30 * d.artifact_score) \div 100

(* C8 as stated: the video detector's overall score is 0.35 face + 0.25    *)
(* audio + 0.25 temporal + 0.15 sync with face and audio the overall       *)
(* scores of the image and the audio detector, verdict 'authentic' iff the *)
(* score is above 0.72.                                                    *)
C8_VideoFusionOfOverallScores ==
    DetectorReturned("video") =>
        LET d == outcome.value.details
        IN  /\ overall_score * 100 =
                     35 * d.face_analysis.details.authenticity_score
                   + 25 * ClaimedAudioOverall(d.audio_analysis.details)
                   + 25 * d.temporal_analysis.avg_consistency
                   + 15 * d.sync_analysis.sync_score
            /\ (outcome.value.result = "authentic") <=> (overall_score > 720000)

(* C8, amended: face and audio are the confidences the image and the audio *)
(* detector report (their overall score times 100, rounded to two          *)
(* decimals) divided by 100; the face analysis is the image detector's     *)
(* result on the representative frame, the audio analysis the audio        *)
(* detector's result on the extracted track.                               *)
C8_VideoFusionOfConfidences ==
    DetectorReturned("video") =>
        LET d == outcome.value.details
        IN  /\ overall_score * 100 =
                     35 * (d.face_analysis.confidence * 100)
                   + 25 * (d.audio_analysis.confidence * 100)
                   + 25 * d.temporal_analysis.avg_consistency
                   + 15 * d.sync_analysis.sync_score
            /\ (outcome.value.result = "authentic") <=> (overall_score > 720000)
            /\ outcome.value.result \in {"authentic", "deepfake"}
            /\ d.face_analysis.details.authenticity_score * 100 =
                   60 * signals.face[1] + 20 * signals.face[2] + 20 * signals.face[3]
            /\ 2 * d.face_analysis.confidence * 100
                   - 2 * d.face_analysis.details.authenticity_score \in -100..100
            /\ d.audio_analysis.details.naturalness_score = signals.voice[1]
            /\ d.audio_analysis.details.consistency_score = signals.voice[2]
            /\ 2 * d.audio_analysis.confidence * 100
                   - 2 * ClaimedAudioOverall(d.audio_analysis.details) \in -100..100

C8_Witness ==
    /\ DetectorReturned("video")
    /\ outcome.value.details.face_analysis.confidence * 100
           # outcome.value.details.face_analysis.details.authenticity_score
    /\ outcome.value.result = "authentic"

(* C9: the fusion weights of each detector are non-negative and sum to 1:  *)
(* as constants, and in effect (signals all equal to x fuse to x).         *)
C9_WeightsSumToOne ==
    /\ \A k \in DOMAIN ImageWeights : ImageWeights[k] >= 0
    /\ \A k \in DOMAIN AudioWeights : AudioWeights[k] >= 0
    /\ \A k \in DOMAIN VideoWeights : VideoWeights[k] >= 0
    /\ ImageWeights.authenticity + ImageWeights.consistency + ImageWeights.artifact = 100
    /\ AudioWeights.naturalness + AudioWeights.consistency + AudioWeights.artifact = 100
    /\ VideoWeights.face + VideoWeights.audio + VideoWeights.temporal + VideoWeights.sync = 100
    /\ DOMAIN ImageWeights = {"authenticity", "consistency", "artifact"}
    /\ DOMAIN AudioWeights = {"naturalness", "consistency", "artifact"}
    /\ DOMAIN VideoWeights = {"face", "audio", "temporal", "sync"}
    /\ \A x \in {0, 720000, 1000000} :
        /\ (DetectorReturned("image")
              /\ signals = [authenticity |-> x, consistency |-> x, artifact |-> x])
             => overall_score = x
        /\ (DetectorReturned("audio")
              /\ signals = [naturalness |-> x, consistency |-> x, artifact |-> x])
             => overall_score = x
        /\ (DetectorReturned("video")
              /\ outcome.value.details.face_analysis.confidence * 100 = x
              /\ outcome.value.details.audio_analysis.confidence * 100 = x
              /\ outcome.value.details.temporal_analysis.avg_consistency = x
              /\ outcome.value.details.sync_analysis.sync_score = x)
             => overall_score = x

C9_Witness ==
    /\ DetectorReturned("audio")
    /\ signals = [naturalness |-> 1000000, consistency |-> 1000000, artifact |-> 1000000]
    /\ overall_score = 1000000

(* C10: every detector's overall score lies in [0, 1] and every confidence *)
(* it returns, its own and those of the analyses it embeds, in [0, 100].   *)
C10_ScoreAndConfidenceInRange ==
    (pc = "returned" /\ outcome.status = "returned") =>
        /\ overall_score \in 0..1000000
        /\ outcome.value.confidence \in 0..10000
        /\ call = "video" =>
              /\ outcome.value.details.face_analysis.confidence \in 0..10000
              /\ outcome.value.details.audio_analysis.confidence \in 0..10000

C10_Witness ==
    /\ DetectorReturned("video")
    /\ overall_score = 1000000
    /\ outcome.value.confidence = 10000
    /\ outcome.value.details.face_analysis.confidence = 10000
    /\ outcome.value.details.audio_analysis.confidence = 10000

(* C11: extract_frames uses the stride floor(frame_count / max_frames)     *)
(* when frame_count > max_frames and 1 otherwise, and never holds more     *)
(* than max_frames frames; frame_count = 100, max_frames = 30 gives stride *)
(* 3 and at most 30 frames.                                                *)
C11_StrideAndFrameLimit ==
    exPc \in {"loop", "returned"} =>
        /\ exFrameCount > exMaxFrames => exStep = exFrameCount \div exMaxFrames
        /\ exFrameCount <= exMaxFrames => exStep = 1
        /\ Len(exFrames) <= exMaxFrames
        /\ (exFrameCount = 100 /\ exMaxFrames = 30) => exStep = 3 /\ Len(exFrames) <= 30
        /\ exPc = "returned" =>
               exFrames = extract_frames(exFrameCount, exMaxFrames)

C11_Witness ==
    /\ exPc = "returned"
    /\ exFrameCount = 100 /\ exMaxFrames = 30
    /\ exStep = 3
    /\ Len(exFrames) = 30

(* C12: when frame_count <= max_frames, extract_frames returns exactly the *)
(* frame_count frames of the video, in order, none skipped; frame_count =  *)
(* 10, max_frames = 30 yields exactly 10 frames.                           *)
C12_ShortVideoAllFrames ==
    (exPc = "returned" /\ exFrameCount <= exMaxFrames) =>
        /\ Len(exFrames) = exFrameCount
        /\ \A i \in 1..Len(exFrames) : exFrames[i] = i - 1

C12_Witness ==
    /\ exPc = "returned"
    /\ exFrameCount = 10 /\ exMaxFrames = 30
    /\ Len(exFrames) = 10

(* C20: the frames extract_frames returns are exactly the frames whose     *)
(* index is a multiple of the stride: every multiple of the stride below   *)
(* frame_count is sampled.                                                 *)
C20_EveryStrideMultipleSampled ==
    exPc = "returned" =>
        {exFrames[i] : i \in 1..Len(exFrames)}
            = {k \in 0..(exFrameCount - 1) : k % exStep = 0}

(* the 3-second windows of an audio of n samples that are longer than 1    *)
(* second: the full windows and, if long enough, the last partial one      *)
ClaimedUsableCount(n) ==
    (n \div (3 * 22050)) + (IF n % (3 * 22050) > 22050 THEN 1 ELSE 0)

(* C13: verify_speaker_consistency on loaded audio with 0 or 1 usable      *)
(* segment, the empty audio included, returns the neutral                  *)
(* consistency_score 0.8 (and a call always returns a dict).               *)
C13_ShortAudioNeutral ==
    spPc = "returned" =>
        /\ "consistency_score" \in DOMAIN spResult
        /\ (spLen >= 0 /\ ClaimedUsableCount(spLen) < 2) =>
               spResult = [consistency_score |-> 800000]

C13_Witness ==
    /\ spPc = "returned"
    /\ spLen = 0
    /\ spResult = [consistency_score |-> 800000]

(* the detector of each category *)
MatchingDetector ==
    [image |-> "face_detector", audio |-> "audio_detector", video |-> "video_detector"]

(* C14: a request has at most one detector invocation, it is the detector  *)
(* of the asset's category (image -> face_detector, audio ->               *)
(* audio_detector, video -> video_detector), and a request that got past   *)
(* the dispatch (it sleeps, or it answered with a result or with the 500   *)
(* of a failed detector) has exactly one.                                  *)
C14_ExactlyOneMatchingDetector ==
    \A r \in Requests :
        /\ Len(reqInvoked[r]) <= 1
        /\ \A i \in 1..Len(reqInvoked[r]) : reqInvoked[r][i] = MatchingDetector[reqType[r]]
        /\ (\/ reqPc[r] = "sleeping"
            \/ reqOutcome[r].status \in {"response"}
            \/ reqError[r] # NoError) => Len(reqInvoked[r]) = 1

C14_Witness ==
    \E r \in Requests :
        /\ reqPc[r] = "done"
        /\ reqOutcome[r].status = "response"
        /\ reqType[r] = "audio"
        /\ reqInvoked[r] = <<"audio_detector">>

(* the content types the endpoint supports *)
ClaimedSupported ==
    {"image/jpeg", "image/png", "image/webp", "video/mp4", "video/avi", "video/mov",
     "audio/mpeg", "audio/wav", "audio/mp4", "audio/x-m4a"}

(* C15: a request whose declared content type is in none of the supported  *)
(* sets ends with the 400 "Unsupported file type" error, with no detector  *)
(* invoked and no temp file created.                                       *)
C15_UnsupportedTypeRejected ==
    \A r \in Requests :
        (reqPc[r] # "idle" /\ reqContentType[r] \notin ClaimedSupported) =>
            /\ reqPc[r] = "done"
            /\ reqOutcome[r] = [status |-> "http_error", code |-> 400,
                                detail |-> <<"Unsupported file type", reqContentType[r]>>]
            /\ reqInvoked[r] = <<>>
            /\ reqFile[r] = 0
            /\ reqSize[r] = -1

C15_Witness ==
    \E r \in Requests :
        /\ reqPc[r] = "done"
        /\ reqContentType[r] = "text/plain"
        /\ reqOutcome[r].status = "http_error"
        /\ reqOutcome[r].code = 400
        /\ reqFile[r] = 0
        /\ reqInvoked[r] = <<>>

(* C16: two requests whose detectors failed with errors of different kinds *)
(* are answered with different errors: the reported error tells the kinds  *)
(* apart, the messages being equal or not.                                 *)
C16_ErrorKindsDistinguishable ==
    \A r1, r2 \in Requests :
        (/\ reqError[r1] # NoError
         /\ reqError[r2] # NoError
         /\ reqError[r1].kind # reqError[r2].kind) => reqOutcome[r1] # reqOutcome[r2]

(* the size limits of the categories, in bytes: 10, 100 and 50 MiB *)
ClaimedSizeLimit ==
    [image |-> 10485760, video |-> 104857600, audio |-> 52428800]

(* C17: no detector is invoked for a request whose upload is longer than   *)
(* the size limit of its category.                                         *)
C17_SizeLimitEnforced ==
    \A r \in Requests :
        reqInvoked[r] # <<>> => reqSize[r] <= ClaimedSizeLimit[reqType[r]]

(* C18: a step of a request removes no temp file but the one that request  *)
(* created, creates none but its own, which no other request holds, and    *)
(* leaves the state of every other request as it was.                      *)
C18_RequestsTouchOnlyOwnFile ==
    [][\A r \in Requests :
           reqPc'[r] # reqPc[r] =>
               /\ (uploadFiles \ uploadFiles') \subseteq {reqFile[r]}
               /\ (uploadFiles' \ uploadFiles) \subseteq {reqFile'[r]}
               /\ \A q \in Requests \ {r} :
                      /\ reqFile'[r] # 0 => reqFile'[r] # reqFile'[q]
                      /\ reqFile'[q] = reqFile[q]
                      /\ reqResult'[q] = reqResult[q]
                      /\ reqInvoked'[q] = reqInvoked[q]
                      /\ reqOutcome'[q] = reqOutcome[q]
                      /\ reqFile[q] \in uploadFiles => reqFile[q] \in uploadFiles'
      ]_vars

C18_Witness ==
    \E r1, r2 \in Requests :
        /\ r1 # r2
        /\ reqPc[r1] = "done"
        /\ reqOutcome[r1].status = "response"
        /\ reqFile[r1] \notin uploadFiles
        /\ reqPc[r2] \in {"reading", "sleeping"}
        /\ reqFile[r2] \in uploadFiles
        /\ reqFile[r2] < reqFile[r1]

(* C19: two result records of the same category with the same confidence   *)
(* carry the same verdict.                                                 *)
C19_SameScoreSameVerdict ==
    \A r1, r2 \in Requests :
        (/\ reqOutcome[r1].status = "response"
         /\ reqOutcome[r2].status = "response"
         /\ reqOutcome[r1].file_type = reqOutcome[r2].file_type
         /\ reqOutcome[r1].confidence = reqOutcome[r2].confidence)
            => reqOutcome[r1].result = reqOutcome[r2].result

(* the audio is cut into consecutive 3-second windows: every segment but   *)
(* the last is 3 s long, the last is what is left, nothing is lost         *)
ClaimedWindows ==
    /\ \A i \in 1..Len(spSegments) :
           IF i < Len(spSegments) THEN spSegments[i] = 3 * 22050
           ELSE spSegments[i] = spLen - (i - 1) * (3 * 22050)
    /\ \A i \in 1..Len(spSegments) : spSegments[i] \in 1..(3 * 22050)
    /\ spLen = 0 <=> spSegments = <<>>

(* C21, as claimed: the audio is cut into consecutive 3-second windows and *)
(* a segment is embedded iff it is at least 1 second (22050 samples) long. *)
C21_SegmentOfOneSecondEmbedded ==
    (spPc = "returned" /\ spLen >= 0) =>
        /\ ClaimedWindows
        /\ spEmbedded = {i \in 1..Len(spSegments) : spSegments[i] >= 22050}

(* C21, amended: the audio is cut into consecutive 3-second windows and a  *)
(* segment is embedded iff it is strictly longer than 1 second; a segment  *)
(* of exactly 1 second is discarded.                                       *)
C21_SegmentLongerThanOneSecondEmbedded ==
    (spPc = "returned" /\ spLen >= 0) =>
        /\ ClaimedWindows
        /\ spEmbedded = {i \in 1..Len(spSegments) : spSegments[i] > 22050}

C21_Witness ==
    /\ spPc = "returned"
    /\ spLen = 4 * 22050
    /\ spSegments = <<3 * 22050, 22050>>
    /\ spEmbedded = {1}
    /\ spResult = [consistency_score |-> 800000]

(* the analysis behind each weight of the video fusion *)
ClaimedVideoSignals ==
    [face |-> "face_analysis", audio |-> "audio_analysis",
     temporal |-> "temporal_analysis", sync |-> "sync_analysis"]

(* C22: a video detection that returns a result was fused from exactly the *)
(* signals that have a weight: the analyses it carries are the four        *)
(* weighted ones, no analysis without a weight among them.                 *)
C22_FusionUsesExactlyDeclaredSignals ==
    (pc = "returned" /\ call = "video" /\ outcome.status = "returned") =>
        DOMAIN outcome.value.details
            = {ClaimedVideoSignals[w] : w \in DOMAIN VideoWeights}

(* C23: the read loop of extract_frames terminates - a call that entered   *)
(* the loop returns - and when it has returned the capture is released.    *)
C23_ReadLoopTerminatesAndReleases ==
    /\ [](exPc = "returned" => ~exCapOpen)
    /\ (exPc = "loop") ~> (exPc = "returned" /\ ~exCapOpen)

C23_Witness ==
    /\ exPc = "returned"
    /\ ~exCapOpen
    /\ exFrameCount = 3 /\ exMaxFrames = 5
    /\ exFrameIdx = 3
    /\ Len(exFrames) = 3

(* C24: the category detect_deepfake assigned to a request's declared      *)
(* content type ("none" when it rejected the type) is the category         *)
(* FileHandler.validate_file_type gives for the same string.               *)
C24_ClassifiersAgree ==
    \A r \in Requests :
        reqPc[r] # "idle" => reqType[r] = validate_file_type(reqContentType[r])

(* threshold * 100, in hundredths of a percent: 75 for image, 72 for audio *)
(* and video                                                               *)
ClaimedThresholdPercent == [image |-> 7500, audio |-> 7200, video |-> 7200]

(* C25, as claimed: in every result of a detector module the verdict is    *)
(* 'authentic' exactly when the reported confidence is strictly greater    *)
(* than threshold * 100.                                                   *)
C25_VerdictAgreesWithConfidence ==
    \A which \in {"image", "audio", "video"} :
        DetectorReturned(which) =>
            (outcome.value.result = "authentic"
                <=> outcome.value.confidence > ClaimedThresholdPercent[which])

(* C25, amended: the verdict is the decision on the unrounded score, so it *)
(* agrees with the rounded confidence except at the threshold itself: a    *)
(* confidence above threshold * 100 is 'authentic', one below is           *)
(* 'deepfake', and a confidence of exactly threshold * 100 comes from a    *)
(* score within half a hundredth of a percent of the threshold and goes    *)
(* with either verdict.                                                    *)
C25_VerdictAgreesUpToRounding ==
    \A which \in {"image", "audio", "video"} :
        DetectorReturned(which) =>
            /\ outcome.value.confidence > ClaimedThresholdPercent[which]
                   => outcome.value.result = "authentic"
            /\ outcome.value.confidence < ClaimedThresholdPercent[which]
                   => outcome.value.result = "deepfake"
            /\ outcome.value.confidence = ClaimedThresholdPercent[which]
                   => /\ overall_score - 100 * ClaimedThresholdPercent[which] \in -50..50
                      /\ outcome.value.result = "authentic"
                             <=> overall_score > 100 * ClaimedThresholdPercent[which]

C25_Witness ==
    /\ DetectorReturned("image")
    /\ overall_score = 750020
    /\ outcome.value.confidence = 7500
    /\ outcome.value.result = "authentic"

(* C26: a call of verify_jwt_token, extract_user_from_token or             *)
(* refresh_token made at or after the exp of the token presented returns   *)
(* None; the exp of a token is its issue time plus jwt_expire_minutes; and *)
(* a token refresh_token returned was asked for before the exp of the      *)
(* token presented.                                                        *)
C26_ExpiredTokenNeverAccepted ==
    /\ \A token \in issued : token.payload.exp = token.payload.iat + jwt_expire_minutes
    /\ (authCall.op \in {"verify", "refresh", "extract"}
          /\ authCall.at >= authCall.token.payload.exp) => authResult = None
    /\ (authCall.op = "refresh" /\ authResult # None) =>
           /\ authCall.token \in issued
           /\ authCall.at < authCall.token.payload.exp
           /\ authResult.payload.exp = authCall.at + jwt_expire_minutes

C26_Witness ==
    /\ authCall.op = "refresh"
    /\ authCall.token \in issued
    /\ authCall.at = authCall.token.payload.exp
    /\ authResult = None
    /\ \E token \in issued : token.payload.iat > authCall.token.payload.iat

(* C27: the session check_database_health opens is closed before it        *)
(* returns, whether the probe succeeded or raised: the only sessions open  *)
(* are those request handlers hold through get_db.                         *)
C27_HealthCheckClosesSession ==
    /\ dbOpen \subseteq dbHeld
    /\ dbPc = "returned" => dbResult \in BOOLEAN

(* the byte strings of the model that match a suspicious pattern *)
ClaimedSuspicious == {"<script", "<SCRIPT", "mz", "#!/bin/"}

(* C28: in every result of scan_file_content is_safe is False iff          *)
(* threats_detected is non-empty, after a failed scan too; and when the    *)
(* scan did not fail is_safe is False iff the content holds a suspicious   *)
(* pattern, whatever the type-specific scan found.                         *)
C28_UnsafeIffThreatDetected ==
    scPc = "returned" =>
        /\ scResult.is_safe = FALSE <=> scResult.threats_detected # <<>>
        /\ (\A n \in 1..Len(scResult.threats_detected) :
                scResult.threats_detected[n] # "Security scan failed")
              => (scResult.is_safe = FALSE <=> scContent \cap ClaimedSuspicious # {})

C28_Witness ==
    /\ scPc = "returned"
    /\ scFileType = "image"
    /\ scContent = {"Exif"}
    /\ scResult.is_safe = TRUE
    /\ scResult.threats_detected = <<>>
    /\ scResult.image_specific_threats # <<>>
====
